---- MODULE Spec2Model ----
(***************************************************************************)
(* Model of src/player.js (reamp-player): the PlayerEngine (track loading, *)
(* play/stop/setCurrentTrack/onEnded), the XObject event table, the part   *)
(* of PlayerView that talks to the engine, and the host audio graph the    *)
(* engine drives.                                                          *)
(*                                                                         *)
(* JavaScript arrays are functions over 0..(length-1); the empty array is  *)
(* << >>.  A JavaScript object with ordered string keys (track.sources) is *)
(* a sequence of [type, uri] records in declaration order.  Gain values    *)
(* 1.0 and 0.0 are the integers 1 and 0.                                   *)
(***************************************************************************)
EXTENDS Integers, Sequences, FiniteSets, TLC

VARIABLES
    tracks,       \* this.tracks / params.tracks: the configured track list
    canPlay,      \* host capability: the MIME types audio.canPlayType accepts
    requests,     \* per track index: the load in flight, [uri, stage]
    buffers,      \* this.buffers
    currentTrack, \* this.currentTrack
    playing,      \* this.playing
    playbackCtx,  \* this.playbackCtx: [defined, arr]; undefined until the first play()
    events,       \* this.events: event name -> list of listeners
    graph,        \* fields of the audio nodes the session refers to: node id -> [gain, buffer, onended]
    running,      \* host: the source nodes being rendered
    pendingEnded, \* host task queue: sources whose onended handler is queued to be called
    plays,        \* number of sessions built so far
    selected,     \* view: indices of the <li> items carrying the 'selected' class
    trackLabel,   \* view: this.trackLabel.textContent
    lastOp,       \* history: the handler that ran last, [name, arg, wasPlaying, threw]
    emitted,      \* history: the emitEvent calls made by the last handler
    delivered     \* history: the listener calls made by the last handler

vars == <<tracks, canPlay, requests, buffers, currentTrack, playing, playbackCtx,
          events, graph, running, pendingEnded, plays, selected, trackLabel, lastOp,
          emitted, delivered>>

configVars == <<tracks, canPlay>>
loaderVars == <<requests, buffers>>
audioVars  == <<playing, playbackCtx, graph, running, pendingEnded, plays>>
viewVars   == <<selected, trackLabel>>

(***************************************************************************)
(* Bounds of the model.                                                    *)
(***************************************************************************)
\* largest number of configured tracks
MaxTracks == 2
\* largest number of sessions built by effective play() calls in one run
MaxPlays == 2
\* largest number of sources one track declares (selectTrackUri's input)
MaxSources == 3

(***************************************************************************)
(* Values.                                                                 *)
(***************************************************************************)
Undefined == "undefined"

MimeTypes == {"audio/mp4", "audio/ogg", "audio/mp3", "audio/wav", "audio/flac", "audio/aac"}

\* var preferred = ['audio/mp4', 'audio/ogg', 'audio/mp3'];
preferred_swapped == <<"audio/ogg", "audio/mp4", "audio/mp3">>
preferred == <<"audio/mp4", "audio/ogg", "audio/mp3">>

Length(arr) == Cardinality(DOMAIN arr)

\* the array arr with arr[i] = v assigned
ArraySet(arr, i, v) == [k \in (DOMAIN arr) \cup {i} |-> IF k = i THEN v ELSE arr[k]]

\* codec in track.sources
Declares(sources, codec) == \E p \in 1..Len(sources) : sources[p].type = codec

\* track.sources[codec]: undefined when the key is absent
SourceOf(sources, codec) ==
    IF Declares(sources, codec)
    THEN sources[CHOOSE p \in 1..Len(sources) : sources[p].type = codec].uri
    ELSE Undefined

(***************************************************************************)
(* Track Loader (lines 71-154).                                            *)
(***************************************************************************)
\* audio.canPlayType(codec): "" is falsy, "maybe" and "probably" are truthy
canPlayType(codec) == codec \in canPlay

\* Fallback loop (lines 133-142) from declaration position p on, then the
\* last resort track.sources["audio/wav"].
DeclaredScan_lastResort(track, p) == SourceOf(track.sources, "audio/wav")
RECURSIVE DeclaredScan(_, _)
DeclaredScan(track, p) ==
    IF p > Len(track.sources)
    THEN SourceOf(track.sources, "audio/wav")
    ELSE LET codec == track.sources[p].type
         IN  IF Declares(track.sources, codec) /\ canPlayType(codec)
             THEN SourceOf(track.sources, codec)
             ELSE DeclaredScan(track, p + 1)

\* Preferred-format loop (lines 124-131) from index i of preferred on.
RECURSIVE PreferredScan(_, _)
PreferredScan(track, i) ==
    IF i > Len(preferred)
    THEN DeclaredScan(track, 1)
    ELSE LET codec == preferred[i]
         IN  IF Declares(track.sources, codec) /\ canPlayType(codec)
             THEN SourceOf(track.sources, codec)
             ELSE PreferredScan(track, i + 1)

selectTrackUri(track) == PreferredScan(track, 1)

\* the two track objects have the same content (title and sources)
SameContent(a, b) == a.title = b.title /\ a.sources = b.sources

IndexOf_byValue(arr, x) ==
    IF \E k \in DOMAIN arr : SameContent(arr[k], x)
    THEN CHOOSE k \in DOMAIN arr :
             SameContent(arr[k], x) /\ \A j \in DOMAIN arr : SameContent(arr[j], x) => k <= j
    ELSE -1
\* this.tracks.indexOf(track): first index holding the same object, -1 if
\* none.  indexOf compares with ===, which on objects is identity: ref is
\* the identity of a track object, whatever its content.
IndexOf(arr, x) ==
    IF \E k \in DOMAIN arr : arr[k].ref = x.ref
    THEN CHOOSE k \in DOMAIN arr :
             arr[k].ref = x.ref /\ \A j \in DOMAIN arr : arr[j].ref = x.ref => k <= j
    ELSE -1

\* the decoded audio buffer the host makes of the bytes fetched from uri
Decoded(uri) == "pcm:" \o uri

\* emitEvent(evt, data): one call of every listener of evt, in order
Deliveries(evt, data) ==
    [k \in 1..Len(events[evt]) |-> [listener |-> events[evt][k], evt |-> evt, data |-> data]]

\* PlayerView.onTrackChanged(num) on the view v (the canvas redraw is not modelled)
onTrackChanged(v, num) ==
    [selected |-> v.selected \cup {num}, trackLabel |-> tracks[num].title]

\* the view after the listener calls ds[k..] have run
RECURSIVE RunListeners(_, _, _)
RunListeners(ds, k, v) ==
    IF k > Len(ds) THEN v
    ELSE RunListeners(ds, k + 1,
             IF ds[k].listener = "onTrackChanged" THEN onTrackChanged(v, ds[k].data) ELSE v)

emitEvent(evt, data) ==
    /\ emitted' = <<[evt |-> evt, data |-> data]>>
    /\ delivered' = Deliveries(evt, data)

noEvent == emitted' = <<>> /\ delivered' = <<>>

\* loadSingleTrack(i): select the URI and send the request
loadSingleTrack(i) ==
    /\ i \in DOMAIN tracks
    /\ i \notin DOMAIN requests
    /\ requests' = ArraySet(requests, i, [uri |-> selectTrackUri(tracks[i]), stage |-> "fetching"])
    /\ lastOp' = [name |-> "loadSingleTrack", arg |-> i, wasPlaying |-> playing, threw |-> FALSE]
    /\ noEvent
    /\ UNCHANGED <<configVars, buffers, currentTrack, audioVars, events, viewVars>>

\* trackLoadedCallback: the XHR 'load' event of track i; hands the bytes to decodeAudioData
trackLoadedCallback_storesRaw(i) ==
    /\ i \in DOMAIN requests
    /\ requests[i].stage = "fetching"
    /\ requests' = [requests EXCEPT ![i].stage = "decoding"]
    /\ buffers' = ArraySet(buffers, i, requests[i].uri)
    /\ lastOp' = [name |-> "trackLoadedCallback", arg |-> i, wasPlaying |-> playing, threw |-> FALSE]
    /\ noEvent
    /\ UNCHANGED <<configVars, currentTrack, audioVars, events, viewVars>>

trackLoadedCallback(i) ==
    /\ i \in DOMAIN requests
    /\ requests[i].stage = "fetching"
    /\ requests' = [requests EXCEPT ![i].stage = "decoding"]
    /\ lastOp' = [name |-> "trackLoadedCallback", arg |-> i, wasPlaying |-> playing, threw |-> FALSE]
    /\ noEvent
    /\ UNCHANGED <<configVars, buffers, currentTrack, audioVars, events, viewVars>>

\* trackDecodedCallback: decodeAudioData's success callback for track i
trackDecodedCallback(i) ==
    /\ i \in DOMAIN requests
    /\ requests[i].stage = "decoding"
    /\ requests' = [requests EXCEPT ![i].stage = "decoded"]
    /\ LET index == IndexOf(tracks, tracks[i])
       IN  buffers' = ArraySet(buffers, index, Decoded(requests[i].uri))
    /\ emitEvent("trackLoaded", <<>>)
    /\ lastOp' = [name |-> "trackDecodedCallback", arg |-> i, wasPlaying |-> playing, threw |-> FALSE]
    /\ UNCHANGED <<configVars, currentTrack, audioVars, events, viewVars>>

(***************************************************************************)
(* Host audio graph.  play() creates, per track, a buffer source connected *)
(* to a gain node connected to the destination.  The nodes of session s    *)
(* are named <<s, track index>>.  graph holds the fields of the nodes the  *)
(* script still refers to: [gain, buffer, onended].  running is the set of *)
(* sources the host is rendering: started, and neither stopped nor at the  *)
(* end of their buffer.  When a source with an onended handler finishes,   *)
(* the host queues the call of that handler (pendingEnded).                *)
(***************************************************************************)
\* the source nodes the array arr of {gainNode, sourceNode} entries refers to
SourcesOf(arr) == {arr[k].sourceNode : k \in DOMAIN arr}

\* the sources among ids that finish now and have an onended handler to call
NewlyEnded_any(ids) == ids \cap running
NewlyEnded(ids) ==
    {id \in ids \cap running : id \in DOMAIN graph /\ graph[id].onended # Undefined}

(***************************************************************************)
(* Playback Engine (lines 160-229).                                        *)
(***************************************************************************)
\* var gainValue = i == this.currentTrack ? 1.0 : 0.0;
gainValue_first(i) == IF i = 0 THEN 1 ELSE 0
gainValue(i) == IF i = currentTrack THEN 1 ELSE 0

\* lines 165-185: build and start a fresh session
buildSession ==
    LET n   == Length(tracks)
        s   == plays + 1
        arr == [i \in 0..(n - 1) |-> [gainNode |-> <<s, i>>, sourceNode |-> <<s, i>>]]
    IN  /\ playing' = TRUE
        /\ playbackCtx' = [defined |-> TRUE, arr |-> arr]
        /\ plays' = s
        /\ graph' = [id \in {<<s, i>> : i \in 0..(n - 1)} |->
                        [gain    |-> gainValue(id[2]),
                         buffer  |-> IF id[2] \in DOMAIN buffers THEN buffers[id[2]] ELSE Undefined,
                         onended |-> IF id[2] = 0 THEN "onEnded" ELSE Undefined]]
        /\ running' = running \cup {<<s, i>> : i \in 0..(n - 1)}
        /\ UNCHANGED pendingEnded

\* line 185 reads this.playbackCtx[0].sourceNode: a TypeError when there is no track
playThrows == ~playing /\ Length(tracks) = 0

play_noGuard == buildSession
play_waitsForBuffers ==
    IF playing \/ DOMAIN buffers # DOMAIN tracks THEN UNCHANGED audioVars ELSE buildSession
play == IF playing THEN UNCHANGED audioVars ELSE buildSession

stop_noGuard ==
    LET ids == SourcesOf(playbackCtx.arr)
    IN  /\ running' = running \ ids
        /\ pendingEnded' = pendingEnded \cup NewlyEnded(ids)
        /\ playbackCtx' = [defined |-> TRUE, arr |-> << >>]
        /\ graph' = << >>
        /\ UNCHANGED <<playing, plays>>
stop ==
    IF ~playing THEN UNCHANGED audioVars
    ELSE LET ids == SourcesOf(playbackCtx.arr)
         IN  /\ running' = running \ ids
             /\ pendingEnded' = pendingEnded \cup NewlyEnded(ids)
             /\ playbackCtx' = [defined |-> TRUE, arr |-> << >>]
             /\ graph' = << >>
             /\ UNCHANGED <<playing, plays>>

onEnded_keepsPlaying == UNCHANGED playing
onEnded == playing' = FALSE

\* the branch of line 221 is taken
Switches(num) == playing /\ playbackCtx.defined /\ num # currentTrack

\* line 222 or 223 reads .gainNode of an entry the session does not hold: a TypeError
setCurrentTrackThrows(num) ==
    Switches(num) /\ (currentTrack \notin DOMAIN playbackCtx.arr \/ num \notin DOMAIN playbackCtx.arr)

setCurrentTrack_oneBased(num) ==
    LET old == currentTrack
        arr == playbackCtx.arr
        g1  == IF Switches(num) /\ old \in DOMAIN arr
               THEN [graph EXCEPT ![arr[old].gainNode].gain = 0]
               ELSE graph
        g2  == IF Switches(num) /\ old \in DOMAIN arr /\ num \in DOMAIN arr
               THEN [g1 EXCEPT ![arr[num].gainNode].gain = 1]
               ELSE g1
    IN  /\ currentTrack' = num + 1
        /\ graph' = g2
        /\ IF setCurrentTrackThrows(num) THEN noEvent ELSE emitEvent("trackChanged", num)
setCurrentTrack(num) ==
    LET old == currentTrack
        arr == playbackCtx.arr
        g1  == IF Switches(num) /\ old \in DOMAIN arr
               THEN [graph EXCEPT ![arr[old].gainNode].gain = 0]
               ELSE graph
        g2  == IF Switches(num) /\ old \in DOMAIN arr /\ num \in DOMAIN arr
               THEN [g1 EXCEPT ![arr[num].gainNode].gain = 1]
               ELSE g1
    IN  /\ currentTrack' = num
        /\ graph' = g2
        /\ IF setCurrentTrackThrows(num) THEN noEvent ELSE emitEvent("trackChanged", num)

(***************************************************************************)
(* Control surface (lines 325-358) and host callbacks.                     *)
(***************************************************************************)
playClicked ==
    /\ playing \/ plays < MaxPlays
    /\ play
    /\ lastOp' = [name |-> "play", arg |-> -1, wasPlaying |-> playing, threw |-> playThrows]
    /\ noEvent
    /\ UNCHANGED <<configVars, loaderVars, currentTrack, events, viewVars>>

stopClicked ==
    /\ stop
    /\ lastOp' = [name |-> "stop", arg |-> -1, wasPlaying |-> playing, threw |-> FALSE]
    /\ noEvent
    /\ UNCHANGED <<configVars, loaderVars, currentTrack, events, viewVars>>

\* click on the icon of track num: unmark the current item, then engine.setCurrentTrack(num)
trackSelectorClicked(num) ==
    /\ num \in DOMAIN tracks
    /\ setCurrentTrack(num)
    /\ LET v == RunListeners(delivered', 1,
                    [selected |-> selected \ {currentTrack}, trackLabel |-> trackLabel])
       IN  selected' = v.selected /\ trackLabel' = v.trackLabel
    /\ lastOp' = [name |-> "setCurrentTrack", arg |-> num, wasPlaying |-> playing,
                  threw |-> setCurrentTrackThrows(num)]
    /\ UNCHANGED <<configVars, loaderVars, playing, playbackCtx, running, pendingEnded, plays, events>>

\* host: the running source id reaches the end of its buffer
sourceEnded(id) ==
    /\ id \in running
    /\ running' = running \ {id}
    /\ pendingEnded' = pendingEnded \cup NewlyEnded({id})
    /\ lastOp' = [name |-> "sourceEnded", arg |-> id[2], wasPlaying |-> playing, threw |-> FALSE]
    /\ noEvent
    /\ UNCHANGED <<configVars, loaderVars, currentTrack, playing, playbackCtx, graph, plays,
                   events, viewVars>>

\* host: the queued call of source id's onended handler, this.onEnded, is made
dispatchEnded(id) ==
    /\ id \in pendingEnded
    /\ onEnded
    /\ pendingEnded' = pendingEnded \ {id}
    /\ lastOp' = [name |-> "onEnded", arg |-> -1, wasPlaying |-> playing, threw |-> FALSE]
    /\ noEvent
    /\ UNCHANGED <<configVars, loaderVars, currentTrack, playbackCtx, graph, running, plays,
                   events, viewVars>>

(***************************************************************************)
(* Initial states.                                                         *)
(***************************************************************************)
DemoSources ==
    << <<[type |-> "audio/mp4", uri |-> "a.mp4"]>>,
       <<[type |-> "audio/ogg", uri |-> "b.ogg"]>>,
       <<[type |-> "audio/mp3", uri |-> "c.mp3"], [type |-> "audio/wav", uri |-> "c.wav"]>> >>

\* JSON.parse (line 418) makes every track a distinct object: ref i
DemoTrack(i) ==
    [ref |-> i, title |-> "track" \o ToString(i), sources |-> DemoSources[(i % 3) + 1]]

\* a configuration listing the same entry twice: two distinct objects with
\* the same title and sources
TwinTrack(i) == [ref |-> i, title |-> "twin", sources |-> DemoSources[1]]

\* the track lists of the players loadAll sets up
Configs ==
    {[i \in 0..(n - 1) |-> DemoTrack(i)] : n \in 0..MaxTracks}
        \cup {[i \in 0..1 |-> TwinTrack(i)]}

\* new PlayerEngine(tracks) (lines 47-62)
EngineConstructed ==
    /\ buffers = << >>
    /\ currentTrack = 0
    /\ playing = FALSE
    /\ playbackCtx = [defined |-> FALSE, arr |-> << >>]
    /\ graph = << >>
    /\ running = {}
    /\ pendingEnded = {}
    /\ plays = 0

\* The state loadAll leaves (lines 414-424) for a player of n tracks: engine
\* constructed, every load sent, view constructed.  With no track createUI
\* throws at line 318, before the trackChanged listener is registered.
Init ==
    \E cfg \in Configs : LET n == Length(cfg) IN
        /\ tracks = cfg
        /\ canPlay = {"audio/mp4", "audio/ogg", "audio/mp3"}
        /\ requests = [i \in 0..(n - 1) |-> [uri |-> selectTrackUri(tracks[i]), stage |-> "fetching"]]
        /\ EngineConstructed
        /\ events = [trackLoaded |-> << >>,
                     trackChanged |-> IF n = 0 THEN << >> ELSE <<"onTrackChanged">>]
        /\ selected = IF n = 0 THEN {} ELSE {0}
        /\ trackLabel = IF n = 0 THEN "" ELSE tracks[0].title
        /\ lastOp = [name |-> "loadAll", arg |-> -1, wasPlaying |-> FALSE, threw |-> (n = 0)]
        /\ emitted = << >>
        /\ delivered = << >>

\* The state right after new PlayerEngine(data.tracks) (line 420), before
\* loadTracks, for one track with any declaration of at most MaxSources
\* sources and any host capability.
UriOf(p) == "u" \o ToString(p)

SourceLists ==
    {[p \in 1..Len(ts) |-> [type |-> ts[p], uri |-> UriOf(p)]] :
        ts \in {t \in UNION {[1..k -> MimeTypes] : k \in 0..MaxSources} :
                   \A p, q \in 1..Len(t) : t[p] = t[q] => p = q}}

InitUri ==
    /\ \E src \in SourceLists : tracks = [i \in {0} |-> [ref |-> 0, title |-> "track0", sources |-> src]]
    /\ canPlay \in SUBSET MimeTypes
    /\ requests = << >>
    /\ EngineConstructed
    /\ events = [trackLoaded |-> << >>, trackChanged |-> << >>]
    /\ selected = {}
    /\ trackLabel = ""
    /\ lastOp = [name |-> "PlayerEngine", arg |-> -1, wasPlaying |-> FALSE, threw |-> FALSE]
    /\ emitted = << >>
    /\ delivered = << >>

NextUri == \E i \in DOMAIN tracks : loadSingleTrack(i)

SpecUri == InitUri /\ [][NextUri]_vars

Next ==
    \/ playClicked
    \/ stopClicked
    \/ \E num \in DOMAIN tracks : trackSelectorClicked(num)
    \/ \E id \in running : sourceEnded(id)
    \/ \E id \in pendingEnded : dispatchEnded(id)
    \/ \E i \in DOMAIN tracks : trackLoadedCallback(i)
    \/ \E i \in DOMAIN tracks : trackDecodedCallback(i)

Spec == Init /\ [][Next]_vars

\* the host delivers the ended event of a track 0 source: the source stops
\* rendering (end of buffer) and the queued handler call is made
EndedDelivery ==
    /\ WF_vars(\E id \in running : id[2] = 0 /\ sourceEnded(id))
    /\ WF_vars(\E id \in pendingEnded : dispatchEnded(id))

SpecLive == Init /\ [][Next]_vars /\ EndedDelivery

(***************************************************************************)
(* Properties.                                                             *)
(***************************************************************************)
arr == playbackCtx.arr

\* the gain of the session's entry i
GainOf(i) == graph[arr[i].gainNode].gain

\* C1: whenever stop() has just been called on a playing engine, playing is
\* false and the session holds no handle, before any host callback runs.
C1_StopLeavesIdle ==
    (lastOp.name = "stop" /\ lastOp.wasPlaying) => (~playing /\ arr = << >>)

\* C2: whenever setCurrentTrack(n) has just been called with n in range, it
\* completed and every registered trackChanged listener was called exactly
\* once, with n.
C2_SelectAlwaysEmits ==
    (lastOp.name = "setCurrentTrack" /\ lastOp.arg \in DOMAIN tracks) =>
        /\ ~lastOp.threw
        /\ Len(delivered) = Len(events.trackChanged)
        /\ \A k \in 1..Len(delivered) :
              /\ delivered[k].listener = events.trackChanged[k]
              /\ delivered[k].evt = "trackChanged"
              /\ delivered[k].data = lastOp.arg

\* C3: whenever the engine is playing (with at least one track), exactly one
\* track's gain in the session is 1 and every other track's gain is 0.
C3_ExactlyOneActive ==
    (playing /\ Length(tracks) >= 1) =>
        \E i \in DOMAIN tracks :
            /\ i \in DOMAIN arr /\ GainOf(i) = 1
            /\ \A j \in (DOMAIN tracks) \ {i} : j \in DOMAIN arr /\ GainOf(j) = 0

\* C4: play() called while the engine is playing changes nothing of the
\* engine: playing, the session, its nodes' fields, the running sources, the
\* queued callbacks, the number of sessions built and currentTrack stay as
\* they were.
C4_PlayWhilePlayingIsNoOp ==
    [][(playing /\ lastOp'.name = "play") => UNCHANGED <<audioVars, currentTrack>>]_vars

\* C4 witness: play() has just been called on an engine that was playing a
\* session of two or more tracks, which is still there.
C4_Witness ==
    /\ lastOp.name = "play" /\ lastOp.wasPlaying
    /\ playing /\ Length(arr) >= 2 /\ SourcesOf(arr) \subseteq running

\* C5: the session holds handles exactly while the engine is playing (with
\* at least one track).
C5_SessionIffPlaying ==
    Length(tracks) >= 1 => ((arr # << >>) <=> playing)

\* C6: selectTrackUri returns the URI of the first of mp4, ogg, mp3 that the
\* track declares and the host plays, when there is one; and when the track
\* declares some type the host plays, the URI returned is never that of a
\* declared type the host does not play.
C6_PreferredOrder ==
    \A i \in DOMAIN requests :
        LET src     == tracks[i].sources
            uri     == requests[i].uri
            order   == <<"audio/mp4", "audio/ogg", "audio/mp3">>
            good(c) == c \in canPlay /\ \E p \in 1..Len(src) : src[p].type = c
            isUriOf(c) == \E p \in 1..Len(src) : src[p].type = c /\ src[p].uri = uri
        IN  /\ (\E k \in 1..3 : good(order[k])) =>
                  \E k \in 1..3 : /\ good(order[k])
                                  /\ \A j \in 1..(k - 1) : ~good(order[j])
                                  /\ isUriOf(order[k])
            /\ (\E c \in MimeTypes : good(c)) =>
                  ~\E c \in MimeTypes \ canPlay : isUriOf(c)

\* C6 witness: a load has been sent for a track that declares ogg before mp4,
\* the host plays both, and the URI chosen is the mp4 one.
C6_Witness ==
    /\ 0 \in DOMAIN requests
    /\ {"audio/mp4", "audio/ogg"} \subseteq canPlay
    /\ Len(tracks[0].sources) >= 2
    /\ tracks[0].sources[1].type = "audio/ogg"
    /\ tracks[0].sources[2].type = "audio/mp4"
    /\ requests[0].uri = tracks[0].sources[2].uri

\* C7: when none of mp4, ogg, mp3 is both declared and playable,
\* selectTrackUri returns the URI of the first declared source, in
\* declaration order, whose type the host plays; when no declared source is
\* playable it returns the declared WAV source, undefined if there is none.
C7_FallbackOrder ==
    \A i \in DOMAIN requests :
        LET src     == tracks[i].sources
            uri     == requests[i].uri
            ok(p)   == src[p].type \in canPlay
            nonePreferred ==
                ~\E p \in 1..Len(src) :
                    ok(p) /\ src[p].type \in {"audio/mp4", "audio/ogg", "audio/mp3"}
        IN  nonePreferred =>
                IF \E p \in 1..Len(src) : ok(p)
                THEN \E p \in 1..Len(src) :
                        ok(p) /\ (\A q \in 1..(p - 1) : ~ok(q)) /\ uri = src[p].uri
                ELSE IF \E p \in 1..Len(src) : src[p].type = "audio/wav"
                     THEN \E p \in 1..Len(src) : src[p].type = "audio/wav" /\ uri = src[p].uri
                     ELSE uri = Undefined

\* C7 witness: a load has been sent for a track whose first source is an
\* unplayable preferred type, whose second is a playable non-preferred type
\* and whose third is WAV; the second one's URI is chosen.
C7_Witness ==
    /\ 0 \in DOMAIN requests
    /\ Len(tracks[0].sources) = 3
    /\ tracks[0].sources[1].type = "audio/mp4" /\ "audio/mp4" \notin canPlay
    /\ tracks[0].sources[2].type = "audio/flac" /\ "audio/flac" \in canPlay
    /\ tracks[0].sources[3].type = "audio/wav" /\ "audio/wav" \in canPlay
    /\ requests[0].uri = tracks[0].sources[2].uri

C9_TwoStateMachine ==
    [][/\ (~playing /\ lastOp'.name = "play") => playing'
       /\ (playing /\ lastOp'.name = "stop") => ~playing'
       /\ (playing /\ lastOp'.name = "onEnded") => ~playing'
       /\ (lastOp'.name = "setCurrentTrack") => (playing' = playing)]_vars

\* C10: an effective play() with at least one track builds one entry per
\* track, with gain 1 at currentTrack and 0 elsewhere, starts every source
\* and sets playing; setCurrentTrack(m) to another index while playing sets
\* the gain of the session's previous entry to 0 and of its entry m to 1;
\* and in every state with playing = true the session holds an entry for
\* every track, whose gain is 1 exactly if it is the current track's.
C10_SessionGains ==
    [][/\ (~playing /\ lastOp'.name = "play" /\ Length(tracks) >= 1) =>
              /\ playing'
              /\ DOMAIN playbackCtx'.arr = DOMAIN tracks
              /\ \A i \in DOMAIN tracks :
                    /\ graph'[playbackCtx'.arr[i].gainNode].gain
                          = (IF i = currentTrack THEN 1 ELSE 0)
                    /\ playbackCtx'.arr[i].sourceNode \in running'
                    /\ playbackCtx'.arr[i].sourceNode \notin running
       /\ \A m \in DOMAIN tracks :
              (playing /\ lastOp'.name = "setCurrentTrack" /\ lastOp'.arg = m
                 /\ m # currentTrack) =>
                  /\ playbackCtx' = playbackCtx
                  /\ currentTrack \in DOMAIN arr
                  /\ graph'[arr[currentTrack].gainNode].gain = 0
                  /\ m \in DOMAIN arr
                  /\ graph'[arr[m].gainNode].gain = 1
       /\ playing' =>
              \A i \in DOMAIN tracks :
                  /\ i \in DOMAIN playbackCtx'.arr
                  /\ (graph'[playbackCtx'.arr[i].gainNode].gain = 1) <=> (i = currentTrack')]_vars

\* C11: onEnded sets playing to false and leaves the session, its nodes'
\* fields, the running sources and currentTrack as they were; stop() called
\* while not playing changes nothing of the engine; so a source leaves the
\* running set only by reaching its end or by a stop() made while playing on
\* the session that holds it.
C11_OnEndedOnlyResetsPlaying ==
    [][/\ (lastOp'.name = "onEnded") =>
              (~playing' /\ UNCHANGED <<playbackCtx, graph, running, plays, currentTrack>>)
       /\ (~playing /\ lastOp'.name = "stop") => UNCHANGED <<audioVars, currentTrack>>
       /\ \A id \in running \ running' :
              \/ lastOp'.name = "sourceEnded"
              \/ lastOp'.name = "stop" /\ playing /\ id \in SourcesOf(arr)]_vars

\* C11 witness: stop() has just been called after onEnded ended the session's
\* playback; the session is still held and the source of another track is
\* still running.
C11_Witness ==
    /\ lastOp.name = "stop" /\ ~lastOp.wasPlaying /\ ~playing
    /\ Length(arr) >= 2
    /\ arr[0].sourceNode \notin running
    /\ \E i \in DOMAIN arr : i # 0 /\ arr[i].sourceNode \in running

\* C12: the end of a source never changes playing by itself, the end of the
\* source of a track other than 0 queues no callback, and playing turns false
\* only when the host calls onEnded for the finished source of track 0.
C12_OnlyTrackZeroMonitored ==
    [][/\ (lastOp'.name = "sourceEnded") => (playing' = playing)
       /\ (lastOp'.name = "sourceEnded" /\ lastOp'.arg # 0) => (pendingEnded' = pendingEnded)
       /\ (playing /\ ~playing') =>
              /\ lastOp'.name = "onEnded"
              /\ \E id \in pendingEnded \ pendingEnded' : id[2] = 0 /\ id \notin running
       /\ \A id \in pendingEnded' : id[2] = 0]_vars

\* C12 witness: the source of the selected track, which is not track 0, has
\* just ended while the engine plays; playing is still true, nothing is
\* queued and track 0's source is still running.
C12_Witness ==
    /\ lastOp.name = "sourceEnded" /\ lastOp.arg # 0 /\ lastOp.arg = currentTrack
    /\ playing /\ pendingEnded = {}
    /\ currentTrack \in DOMAIN arr /\ arr[currentTrack].sourceNode \notin running
    /\ arr[0].sourceNode \in running

\* the requests whose decode has completed
DecodedTracks == {i \in DOMAIN requests : requests[i].stage = "decoded"}

\* C13: a decode completion for track i stores the buffer decoded from track
\* i's request at index i and nowhere else, leaves the other buffers,
\* playing, the session, its nodes and currentTrack unchanged and calls
\* emitEvent once, for trackLoaded; and the buffer table holds, for exactly
\* the tracks decoded so far, each track's own buffer at its own index, so
\* that once all are decoded buffers[i] is track i's buffer for every i.
C13_DecodeStoresAtOwnIndex ==
    [][/\ \A i \in DOMAIN tracks :
              (lastOp'.name = "trackDecodedCallback" /\ lastOp'.arg = i) =>
                  /\ DOMAIN buffers' = (DOMAIN buffers) \cup {i}
                  /\ buffers'[i] = Decoded(requests[i].uri)
                  /\ \A j \in (DOMAIN buffers) \ {i} : buffers'[j] = buffers[j]
                  /\ UNCHANGED <<playing, playbackCtx, graph, running, currentTrack>>
                  /\ Len(emitted') = 1 /\ emitted'[1].evt = "trackLoaded"
       /\ DOMAIN buffers' = DecodedTracks'
       /\ \A i \in DOMAIN buffers' : buffers'[i] = Decoded(requests'[i].uri)]_vars

\* C13 witness: with two or more tracks, the decode of track 0 has just
\* completed after those of all the other tracks, and every track's buffer
\* is in place.
C13_Witness ==
    /\ lastOp.name = "trackDecodedCallback" /\ lastOp.arg = 0
    /\ Length(tracks) >= 2
    /\ DecodedTracks = DOMAIN tracks
    /\ \A i \in DOMAIN tracks : i \in DOMAIN buffers /\ buffers[i] = Decoded(requests[i].uri)
    /\ buffers[0] # buffers[1]

\* C14: a load that fails or never completes is a completion callback that
\* never runs, since no error handler is registered.  As long as track i's
\* decode has not completed its buffer index is empty; trackLoaded is
\* emitted only by the decode completion of a track whose decode was
\* pending; a request changes only by its own callbacks, one stage forward
\* and with the same URI (no error stage, no retry); and the callbacks of
\* the other tracks leave track i's request and buffer index alone.
C14_FailedLoadIsSilent ==
    [][/\ \A i \in DOMAIN tracks :
              /\ requests'[i].stage # "decoded" => i \notin DOMAIN buffers'
              /\ requests'[i].uri = requests[i].uri
              /\ requests'[i].stage # requests[i].stage =>
                     /\ lastOp'.arg = i
                     /\ \/ /\ lastOp'.name = "trackLoadedCallback"
                           /\ requests[i].stage = "fetching" /\ requests'[i].stage = "decoding"
                        \/ /\ lastOp'.name = "trackDecodedCallback"
                           /\ requests[i].stage = "decoding" /\ requests'[i].stage = "decoded"
              /\ (lastOp'.name \in {"trackLoadedCallback", "trackDecodedCallback"} /\ lastOp'.arg # i) =>
                     /\ requests'[i] = requests[i]
                     /\ (i \in DOMAIN buffers') = (i \in DOMAIN buffers)
                     /\ i \in DOMAIN buffers => buffers'[i] = buffers[i]
       /\ (\E k \in DOMAIN emitted' : emitted'[k].evt = "trackLoaded") =>
              /\ lastOp'.name = "trackDecodedCallback"
              /\ requests[lastOp'.arg].stage = "decoding"]_vars

\* C14 witness: track 1 has just been decoded and its buffer stored while
\* the fetch of track 0 has still not completed and index 0 is empty.
C14_Witness ==
    /\ lastOp.name = "trackDecodedCallback" /\ lastOp.arg = 1
    /\ requests[0].stage = "fetching"
    /\ 0 \notin DOMAIN buffers
    /\ 1 \in DOMAIN buffers /\ buffers[1] = Decoded(requests[1].uri)
    /\ Len(emitted) = 1 /\ emitted[1].evt = "trackLoaded"

\* C15: play() is accepted whatever has been loaded: the control is enabled
\* in every idle state, a play() of an idle engine makes it playing and
\* starts one source per track, bound to the track's buffer if decoded and
\* to nothing otherwise, and no listener is registered for trackLoaded, so
\* no part of the program waits for it.
C15_PlayDoesNotWaitForLoading ==
    [][/\ (~playing /\ plays < MaxPlays) => ENABLED playClicked
       /\ (~playing /\ lastOp'.name = "play") =>
              /\ playing'
              /\ Length(playbackCtx'.arr) = Length(tracks)
              /\ \A i \in DOMAIN tracks :
                     LET src == playbackCtx'.arr[i].sourceNode
                     IN  /\ src \in running' \ running
                         /\ graph'[src].buffer =
                                IF i \in DOMAIN buffers THEN buffers[i] ELSE Undefined
       /\ events'.trackLoaded = << >>]_vars

\* C15 witness: a play() issued before the decode of some track completed
\* has made the engine playing with that track's running source bound to a
\* missing buffer, while another source of the session has its buffer.
C15_Witness ==
    /\ lastOp.name = "play" /\ ~lastOp.wasPlaying /\ ~lastOp.threw
    /\ playing
    /\ \E i \in DOMAIN arr :
           /\ requests[i].stage # "decoded"
           /\ arr[i].sourceNode \in running
           /\ graph[arr[i].sourceNode].buffer = Undefined
    /\ \E j \in DOMAIN arr : graph[arr[j].sourceNode].buffer = Decoded(requests[j].uri)

\* C16 as stated: currentTrack is an index of the track list in every
\* reachable state, for every track list size including the empty one.
C16_CurrentTrackInRange == currentTrack \in 0..(Length(tracks) - 1)

\* C16, amended: for every track list with at least one track, currentTrack
\* is an index of the track list in every reachable state.
C16_CurrentTrackInRangeNonEmpty ==
    Length(tracks) >= 1 => currentTrack \in 0..(Length(tracks) - 1)

\* C16 witness: a click on the last icon of a list of two or more tracks
\* has moved currentTrack from another index to the last index.
C16_Witness ==
    /\ Length(tracks) >= 2
    /\ lastOp.name = "setCurrentTrack" /\ lastOp.arg = Length(tracks) - 1
    /\ currentTrack = Length(tracks) - 1
    /\ selected # {0}

\* C17: with at least one track, provided the host delivers the ended event
\* of track 0's sources, every state with playing = true is eventually
\* followed by a state with playing = false, also when stop() has emptied
\* the session in between; so a play() issued after a stop() eventually
\* takes effect again.
C17_PlayingLeadsToIdle ==
    (playing /\ Length(tracks) >= 1) ~> ~playing

\* C17 witness: the engine has returned to idle by the ended event that
\* followed a stop(), for the second time, i.e. the play() issued after the
\* first stop() had become effective again.
C17_Witness ==
    /\ Length(tracks) >= 1
    /\ lastOp.name = "onEnded" /\ lastOp.wasPlaying /\ ~playing
    /\ playbackCtx.defined /\ Length(arr) = 0
    /\ plays >= 2

\* C18: in every reachable state every running source node is a source of
\* the current session; in particular, right after an effective play() no
\* source started by an earlier play() is still running.
C18_RunningBelongsToSession ==
    /\ running \subseteq SourcesOf(arr)
    /\ (lastOp.name = "play" /\ ~lastOp.wasPlaying) => \A id \in running : id[1] = plays

\* C19: once the view is constructed (a track list with at least one
\* track), in every reachable state exactly one item of the track list is
\* marked 'selected', it is the item at currentTrack, and the track label
\* shows the title of that track.
C19_ViewFollowsCurrentTrack ==
    Length(tracks) >= 1 =>
        /\ selected = {currentTrack}
        /\ trackLabel = tracks[currentTrack].title

====
